---- MODULE Spec2Model ----
(***************************************************************************)
(* Exit-code taxonomy of hadean-go/cli: the code registry, the classifier  *)
(* (Category, IsRetriable, IsUserError, HTTP mapping), the ExitError       *)
(* wrapper and ResolveExitCode, modelled from src/cli.go.                  *)
(*                                                                         *)
(* An error value is a tree of nodes (Go's error chain: a node and what    *)
(* it wraps through Unwrap() error or Unwrap() []error).  Every node is a  *)
(* record of the same shape:                                               *)
(*   kind      "nil"      the absent error (a nil interface)               *)
(*             "new"      errors.New(text): a fresh value, no capability   *)
(*             "sentinel" a package-level errors.New value, named by id    *)
(*             "errno"    a syscall.Errno, named by id                     *)
(*             "net"      a value with Timeout() and Temporary()           *)
(*             "patherr"  *os.PathError{Err: kids[1]}                      *)
(*             "wrapf"    fmt.Errorf("wrapped: %w", kids[1])               *)
(*             "join"     errors.Join(kids[1], kids[2])                    *)
(*             "exit"     *ExitError{Code, Message, Cause}                 *)
(*             "nilexit"  a nil pointer to ExitError held in an error value *)
(*   id        the identity of a sentinel or errno                         *)
(*   code, msg the ExitError's Code and Message; msg is also the text of   *)
(*             a "new" value and the text fmt.Errorf rendered              *)
(*   timeout, temporary   what Timeout() and Temporary() report            *)
(*   kids      the wrapped errors, in Unwrap order                         *)
(***************************************************************************)
EXTENDS Integers, Sequences, FiniteSets, TLC

VARIABLES
    err,        \* the error value under construction / handed to ResolveExitCode
    pc,         \* "build", "resolved", "crashed", "category", "retriable",
                \* "usererror", "tohttp", "fromhttp", "fromhttpof",
                \* "rendered", "marshaled", "text", "marshaltext",
                \* "unmarshaltext", "roundtrip"
    result,     \* the ExitCode ResolveExitCode returned
    panicked,   \* TRUE when the last call ended in a runtime panic
    code,       \* the ExitCode handed to the classifier
    category,   \* Category() of code
    retriable,  \* IsRetriable() of code
    userError,  \* IsUserError() of code
    status,     \* ToHTTPStatus(code), or the status handed to FromHTTPStatus
    fromStatus, \* FromHTTPStatus(status)
    last,       \* the WithCode or factory call that produced err, if one did
    text,       \* what err.Error() returned
    record,     \* what err.MarshalJSON() encoded
    input,      \* the text handed to UnmarshalText, a sequence of characters
    parsed,     \* the ExitCode UnmarshalText writes to
    failed      \* TRUE when UnmarshalText returned an error

vars == <<err, pc, result, panicked, code, category, retriable, userError,
          status, fromStatus, last, text, record, input, parsed, failed>>

-----------------------------------------------------------------------------
(* Bounds of the model *)

\* the largest number of nodes of an error tree
MaxNodes == 3
\* the largest number of nodes of a tree of nested ExitErrors
MaxNested == 4
\* the longest text handed to UnmarshalText
MaxTextLen == 4
\* the codes handed to MarshalText range over -NegCodes .. MaxTextCode
MaxTextCode == 150
\* the most whitespace put on each side of a marshaled code
MaxPad == 1
\* classifier inputs range over -NegCodes .. MaxCode
NegCodes == 3
MaxCode == 1000

-----------------------------------------------------------------------------
(* Code registry: src/cli.go 31-124 *)

ExitCodeSuccess == 0
ExitCodeErrorInternal == 1
ExitCodeError == 1
ExitCodeInvalidArgument == 2
ExitCodeUsageError == 2
ExitCodeCmdUsage == 64
ExitCodeDataError == 65
ExitCodeNoInput == 66
ExitCodeNoUser == 67
ExitCodeNoHost == 68
ExitCodeUnavailable == 69
ExitCodeSoftware == 70
ExitCodeOSError == 71
ExitCodeOSFile == 72
ExitCodeCantCreate == 73
ExitCodeIOError == 74
ExitCodeTempFail == 75
ExitCodeProtocol == 76
ExitCodeNoPermission == 77
ExitCodeConfig == 78
ExitCodeAuthRequired == 80
ExitCodeAuthFailed == 81
ExitCodeForbidden == 82
ExitCodeNotFound == 83
ExitCodeConflict == 84
ExitCodeValidation == 85
ExitCodeRateLimit == 86
ExitCodeQuotaExceeded == 87
ExitCodeInterrupted == 130
ExitCodeTerminated == 143

CategorySuccess == "success"
CategoryGeneral == "general"
CategoryUserError == "user_error"
CategoryCLIExtended == "cli_extended"
CategorySystemSignal == "system_signal"
CategoryUnknown == "unknown"

\* ExitCode.String
String(c) ==
    CASE c = ExitCodeSuccess -> "Success"
      [] c = ExitCodeErrorInternal -> "Internal error"
      [] c = ExitCodeInvalidArgument -> "Invalid argument"
      [] c = ExitCodeCmdUsage -> "Command usage error"
      [] c = ExitCodeDataError -> "Data format error"
      [] c = ExitCodeNoInput -> "Input file not found"
      [] c = ExitCodeNoUser -> "User not found"
      [] c = ExitCodeNoHost -> "Host not found"
      [] c = ExitCodeUnavailable -> "Service unavailable"
      [] c = ExitCodeSoftware -> "Internal software error"
      [] c = ExitCodeOSError -> "Operating system error"
      [] c = ExitCodeOSFile -> "System file error"
      [] c = ExitCodeCantCreate -> "Cannot create output file"
      [] c = ExitCodeIOError -> "I/O error"
      [] c = ExitCodeTempFail -> "Temporary failure"
      [] c = ExitCodeProtocol -> "Protocol error"
      [] c = ExitCodeNoPermission -> "Permission denied"
      [] c = ExitCodeConfig -> "Configuration error"
      [] c = ExitCodeAuthRequired -> "Authentication required"
      [] c = ExitCodeAuthFailed -> "Authentication failed"
      [] c = ExitCodeForbidden -> "Forbidden"
      [] c = ExitCodeNotFound -> "Not found"
      [] c = ExitCodeConflict -> "Conflict"
      [] c = ExitCodeValidation -> "Validation error"
      [] c = ExitCodeRateLimit -> "Rate limit exceeded"
      [] c = ExitCodeQuotaExceeded -> "Quota exceeded"
      [] c = ExitCodeInterrupted -> "Interrupted by user"
      [] c = ExitCodeTerminated -> "Terminated by system"
      [] OTHER -> "Unknown exit code: " \o ToString(c)

-----------------------------------------------------------------------------
(* Classifier: src/cli.go 190-235, 473-536 *)

\* ExitCode.Category with the 80..99 range forgotten
CategoryNoExtended(c) ==
    IF c = 0 THEN CategorySuccess
    ELSE IF c >= 1 /\ c <= 63 THEN CategoryGeneral
    ELSE IF c >= 64 /\ c <= 79 THEN CategoryUserError
    ELSE IF c >= 128 THEN CategorySystemSignal
    ELSE CategoryUnknown

\* ExitCode.Category with the gap 100..127 folded into the signal range
CategoryNoGap(c) ==
    IF c = 0 THEN CategorySuccess
    ELSE IF c >= 1 /\ c <= 63 THEN CategoryGeneral
    ELSE IF c >= 64 /\ c <= 79 THEN CategoryUserError
    ELSE IF c >= 80 /\ c <= 99 THEN CategoryCLIExtended
    ELSE IF c >= 100 THEN CategorySystemSignal
    ELSE CategoryUnknown

\* ExitCode.Category
Category(c) ==
    IF c = 0 THEN CategorySuccess
    ELSE IF c >= 1 /\ c <= 63 THEN CategoryGeneral
    ELSE IF c >= 64 /\ c <= 79 THEN CategoryUserError
    ELSE IF c >= 80 /\ c <= 99 THEN CategoryCLIExtended
    ELSE IF c >= 128 THEN CategorySystemSignal
    ELSE CategoryUnknown

\* ExitCode.IsRetriable with ExitCodeSoftware taken for retriable
IsRetriableWithSoftware(c) ==
    c \in {ExitCodeTempFail, ExitCodeUnavailable, ExitCodeIOError,
           ExitCodeRateLimit, ExitCodeSoftware}

\* ExitCode.IsRetriable
IsRetriable(c) ==
    c \in {ExitCodeTempFail, ExitCodeUnavailable, ExitCodeIOError,
           ExitCodeRateLimit}

\* ExitCode.IsUserError with ExitCodeAuthFailed taken for a user error
IsUserErrorWithAuth(c) ==
    c \in {ExitCodeInvalidArgument, ExitCodeCmdUsage, ExitCodeDataError,
           ExitCodeNoInput, ExitCodeNoUser, ExitCodeNoHost,
           ExitCodeNoPermission, ExitCodeConfig, ExitCodeNotFound,
           ExitCodeValidation, ExitCodeAuthFailed}

\* ExitCode.IsUserError
IsUserError(c) ==
    c \in {ExitCodeInvalidArgument, ExitCodeCmdUsage, ExitCodeDataError,
           ExitCodeNoInput, ExitCodeNoUser, ExitCodeNoHost,
           ExitCodeNoPermission, ExitCodeConfig, ExitCodeNotFound,
           ExitCodeValidation}

\* FromHTTPStatus whose last range stops at 599
FromHTTPStatusBelow600(s) ==
    CASE s \in {200, 201, 202, 204} -> ExitCodeSuccess
      [] s = 400 -> ExitCodeDataError
      [] s = 401 -> ExitCodeAuthFailed
      [] s = 403 -> ExitCodeForbidden
      [] s = 404 -> ExitCodeNotFound
      [] s = 409 -> ExitCodeConflict
      [] s \in {412, 422} -> ExitCodeValidation
      [] s = 423 -> ExitCodeForbidden
      [] s = 429 -> ExitCodeRateLimit
      [] s = 500 -> ExitCodeSoftware
      [] s \in {501, 502, 503, 504} -> ExitCodeUnavailable
      [] OTHER ->
           IF s >= 200 /\ s < 300 THEN ExitCodeSuccess
           ELSE IF s >= 400 /\ s < 500 THEN ExitCodeDataError
           ELSE IF s >= 500 /\ s < 600 THEN ExitCodeUnavailable
           ELSE ExitCodeErrorInternal

\* FromHTTPStatus
FromHTTPStatus(s) ==
    CASE s \in {200, 201, 202, 204} -> ExitCodeSuccess
      [] s = 400 -> ExitCodeDataError
      [] s = 401 -> ExitCodeAuthFailed
      [] s = 403 -> ExitCodeForbidden
      [] s = 404 -> ExitCodeNotFound
      [] s = 409 -> ExitCodeConflict
      [] s \in {412, 422} -> ExitCodeValidation
      [] s = 423 -> ExitCodeForbidden
      [] s = 429 -> ExitCodeRateLimit
      [] s = 500 -> ExitCodeSoftware
      [] s \in {501, 502, 503, 504} -> ExitCodeUnavailable
      [] OTHER ->
           IF s >= 200 /\ s < 300 THEN ExitCodeSuccess
           ELSE IF s >= 400 /\ s < 500 THEN ExitCodeDataError
           ELSE IF s >= 500 THEN ExitCodeUnavailable
           ELSE ExitCodeErrorInternal

\* ToHTTPStatus with a redirect status for the codes it does not list
ToHTTPStatusRedirectDefault(c) ==
    CASE c = ExitCodeSuccess -> 200
      [] c \in {ExitCodeInvalidArgument, ExitCodeCmdUsage, ExitCodeDataError,
                ExitCodeValidation} -> 400
      [] c \in {ExitCodeAuthRequired, ExitCodeAuthFailed} -> 401
      [] c \in {ExitCodeForbidden, ExitCodeNoPermission} -> 403
      [] c \in {ExitCodeNotFound, ExitCodeNoInput} -> 404
      [] c = ExitCodeConflict -> 409
      [] c \in {ExitCodeRateLimit, ExitCodeQuotaExceeded} -> 429
      [] c \in {ExitCodeUnavailable, ExitCodeTempFail} -> 503
      [] c \in {ExitCodeSoftware, ExitCodeOSError, ExitCodeIOError,
                ExitCodeErrorInternal} -> 500
      [] OTHER -> 302

\* ToHTTPStatus
ToHTTPStatus(c) ==
    CASE c = ExitCodeSuccess -> 200
      [] c \in {ExitCodeInvalidArgument, ExitCodeCmdUsage, ExitCodeDataError,
                ExitCodeValidation} -> 400
      [] c \in {ExitCodeAuthRequired, ExitCodeAuthFailed} -> 401
      [] c \in {ExitCodeForbidden, ExitCodeNoPermission} -> 403
      [] c \in {ExitCodeNotFound, ExitCodeNoInput} -> 404
      [] c = ExitCodeConflict -> 409
      [] c \in {ExitCodeRateLimit, ExitCodeQuotaExceeded} -> 429
      [] c \in {ExitCodeUnavailable, ExitCodeTempFail} -> 503
      [] c \in {ExitCodeSoftware, ExitCodeOSError, ExitCodeIOError,
                ExitCodeErrorInternal} -> 500
      [] OTHER -> 500

-----------------------------------------------------------------------------
(* Error values *)

Node(kind, id, c, msg, timeout, temporary, kids) ==
    [kind |-> kind, id |-> id, code |-> c, msg |-> msg,
     timeout |-> timeout, temporary |-> temporary, kids |-> kids]

\* the absent error: a nil error interface
NoErr == Node("nil", "", 0, "", FALSE, FALSE, <<>>)

\* the predefined sentinel causes, in the order ResolveExitCode tests them
PredefinedErrors ==
    <<"ErrInternal", "ErrInvalid", "ErrUsage", "ErrDataFormat", "ErrNotFound",
      "ErrNoPermission", "ErrConfig", "ErrAuth", "ErrForbidden",
      "ErrValidation", "ErrIO", "ErrUnavailable", "ErrTempFail">>

\* the standard library's sentinels ResolveExitCode knows
StdSentinels ==
    {"context.Canceled", "context.DeadlineExceeded", "os.ErrNotExist",
     "os.ErrPermission"}

\* the text each sentinel was created with
SentinelText(id) ==
    CASE id = "ErrInternal" -> "internal error"
      [] id = "ErrInvalid" -> "invalid argument"
      [] id = "ErrUsage" -> "usage error"
      [] id = "ErrDataFormat" -> "data format error"
      [] id = "ErrNotFound" -> "not found"
      [] id = "ErrNoPermission" -> "permission denied"
      [] id = "ErrConfig" -> "configuration error"
      [] id = "ErrAuth" -> "authentication error"
      [] id = "ErrForbidden" -> "forbidden"
      [] id = "ErrValidation" -> "validation error"
      [] id = "ErrIO" -> "I/O error"
      [] id = "ErrUnavailable" -> "service unavailable"
      [] id = "ErrTempFail" -> "temporary failure"
      [] id = "context.Canceled" -> "context canceled"
      [] id = "context.DeadlineExceeded" -> "context deadline exceeded"
      [] id = "os.ErrNotExist" -> "file does not exist"
      [] id = "os.ErrPermission" -> "permission denied"

\* a sentinel value; context.DeadlineExceeded alone has Timeout() and
\* Temporary(), both true
Sentinel(id) ==
    Node("sentinel", id, 0, SentinelText(id),
         id = "context.DeadlineExceeded", id = "context.DeadlineExceeded", <<>>)

\* the syscall.Errno values of the model
Errnos == {"ENOENT", "EACCES", "ETIMEDOUT"}

ErrnoText(id) ==
    CASE id = "ENOENT" -> "no such file or directory"
      [] id = "EACCES" -> "permission denied"
      [] id = "ETIMEDOUT" -> "connection timed out"

\* a syscall.Errno: Timeout() and Temporary() are true of ETIMEDOUT only
Errno(id) ==
    Node("errno", id, 0, ErrnoText(id), id = "ETIMEDOUT", id = "ETIMEDOUT", <<>>)

\* syscall.Errno.Is: the os sentinel an errno stands for
ErrnoIs(id, target) ==
    \/ target = "os.ErrNotExist" /\ id = "ENOENT"
    \/ target = "os.ErrPermission" /\ id = "EACCES"

\* a net.Error: dummyNetError of the tests (no cause), or one that wraps
NetError(timeout, temporary, kids) ==
    Node("net", "", 0, "dummy", timeout, temporary, kids)

\* the typed nil: what WithCode returns for an absent error, once it is held
\* in an error value
NilExitError == Node("nilexit", "", 0, "", FALSE, FALSE, <<>>)

RECURSIVE Size(_)
RECURSIVE SizeAll(_)
\* the number of nodes of an error tree
Size(e) == IF e.kind = "nil" THEN 0 ELSE 1 + SizeAll(e.kids)
SizeAll(es) == IF es = <<>> THEN 0 ELSE Size(Head(es)) + SizeAll(Tail(es))

RECURSIVE Chain(_)
RECURSIVE ChainAll(_)
\* the nodes of an error tree in the order errors.Is and errors.As visit them:
\* the error itself, then depth-first what it unwraps to
Chain(e) == IF e.kind = "nil" THEN <<>> ELSE <<e>> \o ChainAll(e.kids)
ChainAll(es) == IF es = <<>> THEN <<>> ELSE Chain(Head(es)) \o ChainAll(Tail(es))

RECURSIVE ErrorPanics(_)
\* whether calling Error() on the value dereferences a nil *ExitError
ErrorPanics(e) ==
    CASE e.kind = "nilexit" -> TRUE
      [] e.kind = "exit" -> e.msg = "" /\ e.kids # <<>> /\ ErrorPanics(e.kids[1])
      [] e.kind = "join" -> ErrorPanics(e.kids[1]) \/ ErrorPanics(e.kids[2])
      [] e.kind \in {"patherr", "net"} -> e.kids # <<>> /\ ErrorPanics(e.kids[1])
      [] OTHER -> FALSE

RECURSIVE ErrorText(_)
\* Error() of an ExitError that prefers the text of its cause to its message
ErrorTextCauseFirst(e) ==
    CASE e.kind = "exit" ->
           IF e.kids # <<>> THEN ErrorText(e.kids[1])
           ELSE IF e.msg # "" THEN e.msg
           ELSE String(e.code)
      [] e.kind = "join" -> ErrorText(e.kids[1]) \o "\n" \o ErrorText(e.kids[2])
      [] e.kind = "patherr" -> "open f: " \o ErrorText(e.kids[1])
      [] e.kind = "net" ->
           IF e.kids = <<>> THEN e.msg ELSE e.msg \o ": " \o ErrorText(e.kids[1])
      [] OTHER -> e.msg

\* Error(): the rendered text of an error whose Error() does not panic
ErrorText(e) ==
    CASE e.kind = "exit" ->
           IF e.msg # "" THEN e.msg
           ELSE IF e.kids # <<>> THEN ErrorText(e.kids[1])
           ELSE String(e.code)
      [] e.kind = "join" -> ErrorText(e.kids[1]) \o "\n" \o ErrorText(e.kids[2])
      [] e.kind = "patherr" -> "open f: " \o ErrorText(e.kids[1])
      [] e.kind = "net" ->
           IF e.kids = <<>> THEN e.msg ELSE e.msg \o ": " \o ErrorText(e.kids[1])
      [] OTHER -> e.msg

\* what fmt renders for a %w operand: fmt recovers a panicking Error()
FmtText(e) ==
    IF e.kind = "nilexit" THEN "<nil>"
    ELSE IF ErrorPanics(e) THEN "%!w(PANIC=Error method)"
    ELSE ErrorText(e)

\* NewExitError(code, message, cause)
NewExitError(c, message, cause) ==
    Node("exit", "", c, message, FALSE, FALSE,
         IF cause.kind = "nil" THEN <<>> ELSE <<cause>>)

\* WithCode(err, code), for an err whose Error() does not panic
WithCode(e, c) ==
    IF e.kind = "nil" THEN NilExitError
    ELSE NewExitError(c, ErrorText(e), e)

\* fmt.Errorf("wrapped: %w", err)
Errorf(e) ==
    Node("wrapf", "", 0, "wrapped: " \o FmtText(e), FALSE, FALSE, <<e>>)

\* errors.Join(a, b)
Join(a, b) == Node("join", "", 0, "", FALSE, FALSE, <<a, b>>)

\* &os.PathError{Op: "open", Path: "f", Err: err}
PathError(e) == Node("patherr", "", 0, "", FALSE, FALSE, <<e>>)

\* the elements of a sequence
Range(q) == {q[i] : i \in 1..Len(q)}

-----------------------------------------------------------------------------
(* Factories: src/cli.go 433-466 *)

UsageError(message) ==
    NewExitError(ExitCodeUsageError, message, Sentinel("ErrUsage"))

ValidationError(message) ==
    NewExitError(ExitCodeValidation, message, Sentinel("ErrValidation"))

ConfigError(message) ==
    NewExitError(ExitCodeConfig, message, Sentinel("ErrConfig"))

\* fmt.Sprintf("%s not found", resource)
NotFoundError(resource) ==
    NewExitError(ExitCodeNotFound, resource \o " not found", Sentinel("ErrNotFound"))

\* fmt.Sprintf("permission denied: %s", action)
PermissionError(action) ==
    NewExitError(ExitCodeNoPermission, "permission denied: " \o action,
                 Sentinel("ErrNoPermission"))

\* an AuthError bound to the code of a refused request
AuthErrorForbidden(message) ==
    NewExitError(ExitCodeForbidden, message, Sentinel("ErrAuth"))

AuthError(message) ==
    NewExitError(ExitCodeAuthFailed, message, Sentinel("ErrAuth"))

TempFailError(message) ==
    NewExitError(ExitCodeTempFail, message, Sentinel("ErrTempFail"))

\* the factories, by name
Factories ==
    {"UsageError", "ValidationError", "ConfigError", "NotFoundError",
     "PermissionError", "AuthError", "TempFailError"}

\* the call of the factory of that name
Factory(name, arg) ==
    CASE name = "UsageError" -> UsageError(arg)
      [] name = "ValidationError" -> ValidationError(arg)
      [] name = "ConfigError" -> ConfigError(arg)
      [] name = "NotFoundError" -> NotFoundError(arg)
      [] name = "PermissionError" -> PermissionError(arg)
      [] name = "AuthError" -> AuthError(arg)
      [] name = "TempFailError" -> TempFailError(arg)

-----------------------------------------------------------------------------
(* Structured record: src/cli.go 334-354 *)

\* the JSON object MarshalJSON encodes; keys are the keys it holds: "cause"
\* is tagged omitempty and is left out when the cause text is empty
Record(c, name, cat, message, cause) ==
    [code |-> c, name |-> name, category |-> cat, message |-> message,
     cause |-> cause,
     keys |-> {"code", "name", "category", "message"}
              \cup (IF cause = "" THEN {} ELSE {"cause"})]

\* nothing was encoded
NoRecord ==
    [code |-> 0, name |-> "", category |-> "", message |-> "", cause |-> "",
     keys |-> {}]

\* whether MarshalJSON panics: it calls e.Cause.Error() of a present cause
MarshalJSONPanics(e) == e.kids # <<>> /\ ErrorPanics(e.kids[1])

\* e.MarshalJSON() of an ExitError
MarshalJSON(e) ==
    Record(e.code, String(e.code), Category(e.code), ErrorText(e),
           IF e.kids # <<>> THEN ErrorText(e.kids[1]) ELSE "")

-----------------------------------------------------------------------------
(* Text form of an ExitCode: src/cli.go 237-255.  A text is a sequence of *)
(* characters. *)

\* the decimal digits, the digit d at position d + 1
Digits == <<"0", "1", "2", "3", "4", "5", "6", "7", "8", "9">>

\* the characters strings.TrimSpace removes that the model uses
Spaces == {" ", "\t", "\n"}

RECURSIVE FormatUint(_)
\* the decimal digits of a natural number, least significant first
FormatUintLeastFirst(n) ==
    IF n < 10 THEN <<Digits[n + 1]>>
    ELSE <<Digits[(n % 10) + 1]>> \o FormatUint(n \div 10)

\* the decimal digits of a natural number, most significant first
FormatUint(n) ==
    IF n < 10 THEN <<Digits[n + 1]>>
    ELSE FormatUint(n \div 10) \o <<Digits[(n % 10) + 1]>>

\* strconv.Itoa
Itoa(n) == IF n < 0 THEN <<"-">> \o FormatUint(0 - n) ELSE FormatUint(n)

\* MarshalText
MarshalText(c) == Itoa(c)

RECURSIVE TrimLeft(_)
RECURSIVE TrimRight(_)
TrimLeft(t) ==
    IF t # <<>> /\ Head(t) \in Spaces THEN TrimLeft(Tail(t)) ELSE t
TrimRight(t) ==
    IF t # <<>> /\ t[Len(t)] \in Spaces
    THEN TrimRight(SubSeq(t, 1, Len(t) - 1)) ELSE t

\* strings.TrimSpace
TrimSpace(t) == TrimRight(TrimLeft(t))

\* the value of a digit character
DigitValue(ch) == CHOOSE d \in 0..9 : Digits[d + 1] = ch

RECURSIVE ParseUint(_, _)
\* the digits of t read most significant first, onto the value acc
ParseUint(t, acc) ==
    IF t = <<>> THEN acc
    ELSE ParseUint(Tail(t), acc * 10 + DigitValue(Head(t)))

\* strconv.Atoi: an optional sign, then one digit or more and nothing else;
\* ok is FALSE when it returns an error
Atoi(t) ==
    LET signed == t # <<>> /\ Head(t) \in {"+", "-"}
        body == IF signed THEN Tail(t) ELSE t
        isDigits == body # <<>> /\ \A i \in 1..Len(body) : body[i] \in Range(Digits)
        n == ParseUint(body, 0)
    IN  IF ~isDigits THEN [ok |-> FALSE, n |-> 0]
        ELSE [ok |-> TRUE, n |-> IF signed /\ Head(t) = "-" THEN 0 - n ELSE n]

\* UnmarshalText that parses the text as it stands
UnmarshalTextNoTrim(t, c) ==
    IF t = <<>> THEN [failed |-> FALSE, code |-> ExitCodeSuccess]
    ELSE IF ~Atoi(t).ok THEN [failed |-> TRUE, code |-> c]
    ELSE [failed |-> FALSE, code |-> Atoi(t).n]

\* c.UnmarshalText(t): whether it returned an error, and the code c holds
\* afterwards
UnmarshalText(t, c) ==
    LET s == TrimSpace(t)
    IN  IF s = <<>> THEN [failed |-> FALSE, code |-> ExitCodeSuccess]
        ELSE IF ~Atoi(s).ok THEN [failed |-> TRUE, code |-> c]
        ELSE [failed |-> FALSE, code |-> Atoi(s).n]

-----------------------------------------------------------------------------
(* Resolver: src/cli.go 356-429 *)

\* the outcome of a call: a returned ExitCode, or a runtime panic
Returns(c) == [panic |-> FALSE, code |-> c]
Panics == [panic |-> TRUE, code |-> 0]

\* errors.As that keeps looking and settles on the innermost *ExitError
AsExitErrorInnermost(e) ==
    LET found == SelectSeq(Chain(e), LAMBDA n : n.kind \in {"exit", "nilexit"})
    IN  IF found = <<>> THEN <<>> ELSE <<found[Len(found)]>>

\* errors.As(err, &exitErr): the values of type *ExitError in the chain, in
\* visiting order; errors.As succeeds when there is one and binds the first,
\* which is a nil pointer when that value is the typed nil
AsExitError(e) ==
    SelectSeq(Chain(e), LAMBDA n : n.kind \in {"exit", "nilexit"})

\* errors.Is that compares the texts of the errors
ErrorsIsByText(e, target) ==
    \E i \in 1..Len(Chain(e)) :
        /\ ~ErrorPanics(Chain(e)[i])
        /\ ErrorText(Chain(e)[i]) = SentinelText(target)

\* errors.Is(err, target) for a sentinel target: some value of the chain is
\* that very sentinel
ErrorsIs(e, target) ==
    \E i \in 1..Len(Chain(e)) :
        Chain(e)[i].kind = "sentinel" /\ Chain(e)[i].id = target

\* os.IsNotExist / os.IsPermission: the error itself, or the Err of a
\* *PathError, is the os sentinel or an errno that stands for it; no other
\* wrapper is looked through
UnderlyingErrorIs(e, target) ==
    LET u == IF e.kind = "patherr" THEN e.kids[1] ELSE e
    IN  \/ u.kind = "sentinel" /\ u.id = target
        \/ u.kind = "errno" /\ ErrnoIs(u.id, target)

\* whether a value has the method set of net.Error
IsNetError(n) ==
    \/ n.kind \in {"net", "errno"}
    \/ n.kind = "sentinel" /\ n.id = "context.DeadlineExceeded"

\* errors.As(err, &ne): the net.Error values of the chain, in visiting order
AsNetError(e) == SelectSeq(Chain(e), IsNetError)

\* the net rule with the Temporary() test dropped
NetErrorCodeTimeoutOnly(ne) ==
    IF ne.timeout THEN ExitCodeTempFail ELSE ExitCodeUnavailable

\* the code of the net.Error found
NetErrorCode(ne) ==
    IF ne.timeout THEN ExitCodeTempFail
    ELSE IF ne.temporary THEN ExitCodeTempFail
    ELSE ExitCodeUnavailable

\* the code ResolveExitCode binds to each predefined sentinel
SentinelCode(id) ==
    CASE id = "ErrInternal" -> ExitCodeErrorInternal
      [] id = "ErrInvalid" -> ExitCodeInvalidArgument
      [] id = "ErrUsage" -> ExitCodeUsageError
      [] id = "ErrDataFormat" -> ExitCodeDataError
      [] id = "ErrNotFound" -> ExitCodeNotFound
      [] id = "ErrNoPermission" -> ExitCodeNoPermission
      [] id = "ErrConfig" -> ExitCodeConfig
      [] id = "ErrAuth" -> ExitCodeAuthFailed
      [] id = "ErrForbidden" -> ExitCodeForbidden
      [] id = "ErrValidation" -> ExitCodeValidation
      [] id = "ErrIO" -> ExitCodeIOError
      [] id = "ErrUnavailable" -> ExitCodeUnavailable
      [] id = "ErrTempFail" -> ExitCodeTempFail

\* the predefined sentinels the chain matches, in the order of the switch
PredefinedIn(e) == SelectSeq(PredefinedErrors, LAMBDA id : ErrorsIs(e, id))

\* the switch over the predefined sentinels with Success as its default
PredefinedCodeDefaultSuccess(e) ==
    IF PredefinedIn(e) = <<>> THEN ExitCodeSuccess
    ELSE SentinelCode(Head(PredefinedIn(e)))

\* the switch over the predefined sentinels: the first case that matches,
\* ExitCodeErrorInternal when none does
PredefinedCode(e) ==
    IF PredefinedIn(e) = <<>> THEN ExitCodeErrorInternal
    ELSE SentinelCode(Head(PredefinedIn(e)))

\* ResolveExitCode; reading exitErr.Code through the nil pointer errors.As
\* bound is a nil dereference: the call panics
ResolveExitCode(e) ==
    IF e.kind = "nil" THEN Returns(ExitCodeSuccess)
    ELSE IF AsExitError(e) # <<>> THEN
        IF Head(AsExitError(e)).kind = "nilexit" THEN Panics
        ELSE Returns(Head(AsExitError(e)).code)
    ELSE IF ErrorsIs(e, "context.Canceled") THEN Returns(ExitCodeInterrupted)
    ELSE IF ErrorsIs(e, "context.DeadlineExceeded") THEN Returns(ExitCodeTempFail)
    ELSE IF UnderlyingErrorIs(e, "os.ErrNotExist") THEN Returns(ExitCodeNoInput)
    ELSE IF UnderlyingErrorIs(e, "os.ErrPermission") THEN Returns(ExitCodeNoPermission)
    ELSE IF AsNetError(e) # <<>> THEN Returns(NetErrorCode(Head(AsNetError(e))))
    ELSE Returns(PredefinedCode(e))

-----------------------------------------------------------------------------
(* Inputs *)

\* the codes the model binds ExitErrors to: a named code of each kind and an
\* unnamed one
ErrCodes == {ExitCodeSuccess, ExitCodeValidation, 999}

\* the messages the model gives ExitErrors
Messages == {"", "validation failed"}

\* the texts the model gives errors.New: an unrecognized one, and the text
\* of ErrNotFound
NewTexts == {"unknown", "not found"}

\* the errors the model hands to errors.Join beside the one under construction
JoinLeaves ==
    {Sentinel("context.Canceled"), Sentinel("context.DeadlineExceeded"),
     Sentinel("ErrInternal"), Sentinel("ErrNotFound"), NilExitError,
     NewExitError(ExitCodeValidation, "validation failed", NoErr),
     NetError(FALSE, FALSE, <<>>), Node("new", "", 0, "unknown", FALSE, FALSE, <<>>)}

\* the arguments handed to the factories
FactoryArgs == {"", "invalid input"}

-----------------------------------------------------------------------------
(* State machine *)

\* the call that produced err: its name, the code and the error handed to it
Call(op, c, arg) == [op |-> op, code |-> c, arg |-> arg]
\* err was not produced by WithCode or by a factory
NoCall == Call("", 0, NoErr)

Init ==
    /\ err = NoErr
    /\ pc = "build"
    /\ result = 0
    /\ panicked = FALSE
    /\ code = 0
    /\ category = ""
    /\ retriable = FALSE
    /\ userError = FALSE
    /\ status = 0
    /\ fromStatus = 0
    /\ last = NoCall
    /\ text = ""
    /\ record = NoRecord
    /\ input = <<>>
    /\ parsed = 0
    /\ failed = FALSE

classifierVars == <<code, category, retriable, userError, status, fromStatus>>
renderVars == <<text, record>>
textVars == <<input, parsed, failed>>

\* err := e, the result of the call, when the tree has n nodes at most
BuildWithin(e, call, n) ==
    /\ pc = "build"
    /\ Size(e) <= n
    /\ err' = e
    /\ last' = call
    /\ UNCHANGED <<pc, result, panicked, classifierVars, renderVars, textVars>>

\* err := e, the result of the call, when the tree stays within the bound
BuildBy(e, call) == BuildWithin(e, call, MaxNodes)

\* err := e, built by the standard library or by NewExitError
Build(e) == BuildBy(e, NoCall)

\* a call that panics while the error is built: the program stops there
Crash ==
    /\ pc' = "crashed"
    /\ panicked' = TRUE
    /\ UNCHANGED <<err, result, classifierVars, renderVars, textVars>>

\* errors.New(text)
DoErrorsNew ==
    \E t \in NewTexts :
        /\ err = NoErr
        /\ Build(Node("new", "", 0, t, FALSE, FALSE, <<>>))

\* a package-level sentinel: one of the predefined causes, or one of the
\* standard library's
DoSentinel ==
    \E id \in {PredefinedErrors[i] : i \in 1..Len(PredefinedErrors)} \cup StdSentinels :
        /\ err = NoErr
        /\ Build(Sentinel(id))

\* a syscall.Errno, as the os package reports failures
DoErrno ==
    \E id \in Errnos :
        /\ err = NoErr
        /\ Build(Errno(id))

\* &os.PathError{Err: errno}, what os.Open returns
DoPathError ==
    /\ err.kind = "errno"
    /\ Build(PathError(err))

\* a net.Error, with or without a cause
DoNetError ==
    \E t \in BOOLEAN, tmp \in BOOLEAN :
        Build(NetError(t, tmp, IF err = NoErr THEN <<>> ELSE <<err>>))

\* NewExitError(code, message, err)
DoNewExitError ==
    \E c \in ErrCodes, m \in Messages : Build(NewExitError(c, m, err))

\* WithCode(err, code); err.Error() is evaluated for the message
DoWithCode ==
    \E c \in ErrCodes :
        /\ pc = "build"
        /\ IF ErrorPanics(err)
           THEN Crash /\ last' = Call("WithCode", c, err)
           ELSE BuildBy(WithCode(err, c), Call("WithCode", c, err))

\* fmt.Errorf("wrapped: %w", err)
DoErrorf ==
    /\ err # NoErr
    /\ Build(Errorf(err))

\* errors.Join of err and another error, in either order
DoJoin ==
    \E l \in JoinLeaves, first \in BOOLEAN :
        /\ err # NoErr
        /\ Build(IF first THEN Join(l, err) ELSE Join(err, l))

\* errors.New("wrapped: " + exitErr.Error()) for an ExitError without a
\* cause, as TestResolveExitCode_ExitError does: the text of err, not err
DoEmbedText ==
    /\ err.kind = "exit"
    /\ err.kids = <<>>
    /\ Build(Node("new", "", 0, "wrapped: " \o ErrorText(err), FALSE, FALSE, <<>>))

\* one of the factories: UsageError(message), ..., TempFailError(message)
DoFactory ==
    \E f \in Factories, a \in FactoryArgs :
        /\ err = NoErr
        /\ BuildBy(Factory(f, a), Call(f, 0, NoErr))

\* err.Error() of an ExitError
DoError ==
    /\ pc = "build"
    /\ err.kind = "exit"
    /\ pc' = "rendered"
    /\ panicked' = ErrorPanics(err)
    /\ text' = IF ErrorPanics(err) THEN "" ELSE ErrorText(err)
    /\ UNCHANGED <<err, last, result, record, classifierVars, textVars>>

\* err.MarshalJSON() of an ExitError
DoMarshalJSON ==
    /\ pc = "build"
    /\ err.kind = "exit"
    /\ pc' = "marshaled"
    /\ panicked' = MarshalJSONPanics(err)
    /\ record' = IF MarshalJSONPanics(err) THEN NoRecord ELSE MarshalJSON(err)
    /\ UNCHANGED <<err, last, result, text, classifierVars, textVars>>

\* ResolveExitCode(err)
DoResolve ==
    /\ pc = "build"
    /\ pc' = "resolved"
    /\ result' = ResolveExitCode(err).code
    /\ panicked' = ResolveExitCode(err).panic
    /\ UNCHANGED <<err, last, classifierVars, renderVars, textVars>>

\* the next run of the program
Reset ==
    /\ pc # "build"
    /\ err' = NoErr
    /\ pc' = "build"
    /\ result' = 0
    /\ panicked' = FALSE
    /\ code' = 0
    /\ category' = ""
    /\ retriable' = FALSE
    /\ userError' = FALSE
    /\ status' = 0
    /\ fromStatus' = 0
    /\ last' = NoCall
    /\ text' = ""
    /\ record' = NoRecord
    /\ input' = <<>>
    /\ parsed' = 0
    /\ failed' = FALSE

Next ==
    \/ DoErrorsNew
    \/ DoSentinel
    \/ DoErrno
    \/ DoPathError
    \/ DoNetError
    \/ DoNewExitError
    \/ DoWithCode
    \/ DoErrorf
    \/ DoJoin
    \/ DoEmbedText
    \/ DoFactory
    \/ DoError
    \/ DoMarshalJSON
    \/ DoResolve
    \/ Reset

Spec == Init /\ [][Next]_vars

-----------------------------------------------------------------------------
(* Nested ExitErrors: the same calls on trees of MaxNested nodes, made of *)
(* ExitErrors, of errors.New values and of errors.Join alone *)

\* what errors.Join puts next to err
NestedLeaves ==
    {NilExitError, Node("new", "", 0, "unknown", FALSE, FALSE, <<>>)}

\* errors.New("unknown")
DoNestedNew ==
    /\ err = NoErr
    /\ BuildWithin(Node("new", "", 0, "unknown", FALSE, FALSE, <<>>), NoCall, MaxNested)

\* NewExitError(code, message, err)
DoNestedNewExitError ==
    \E c \in ErrCodes, m \in Messages :
        BuildWithin(NewExitError(c, m, err), NoCall, MaxNested)

\* WithCode(err, code)
DoNestedWithCode ==
    \E c \in ErrCodes :
        /\ pc = "build"
        /\ IF ErrorPanics(err)
           THEN Crash /\ last' = Call("WithCode", c, err)
           ELSE BuildWithin(WithCode(err, c), Call("WithCode", c, err), MaxNested)

\* errors.Join of err and another error, in either order
DoNestedJoin ==
    \E l \in NestedLeaves, first \in BOOLEAN :
        /\ err # NoErr
        /\ BuildWithin(IF first THEN Join(l, err) ELSE Join(err, l), NoCall, MaxNested)

NextNested ==
    \/ DoNestedNew
    \/ DoNestedNewExitError
    \/ DoNestedWithCode
    \/ DoNestedJoin
    \/ DoResolve
    \/ Reset

SpecNested == Init /\ [][NextNested]_vars

-----------------------------------------------------------------------------
(* Classifier calls *)

\* the codes handed to the classifier
Codes == (0 - NegCodes)..MaxCode

\* code.Category()
DoCategory ==
    \E c \in Codes :
        /\ pc = "build"
        /\ err = NoErr
        /\ code' = c
        /\ category' = Category(c)
        /\ pc' = "category"
        /\ UNCHANGED <<err, last, renderVars, textVars, result, panicked, retriable, userError, status, fromStatus>>

\* code.IsRetriable()
DoIsRetriable ==
    \E c \in Codes :
        /\ pc = "build"
        /\ err = NoErr
        /\ code' = c
        /\ retriable' = IsRetriable(c)
        /\ pc' = "retriable"
        /\ UNCHANGED <<err, last, renderVars, textVars, result, panicked, category, userError, status, fromStatus>>

\* code.IsUserError()
DoIsUserError ==
    \E c \in Codes :
        /\ pc = "build"
        /\ err = NoErr
        /\ code' = c
        /\ userError' = IsUserError(c)
        /\ pc' = "usererror"
        /\ UNCHANGED <<err, last, renderVars, textVars, result, panicked, category, retriable, status, fromStatus>>

\* status := ToHTTPStatus(code)
DoToHTTPStatus ==
    \E c \in Codes :
        /\ pc = "build"
        /\ err = NoErr
        /\ code' = c
        /\ status' = ToHTTPStatus(c)
        /\ pc' = "tohttp"
        /\ UNCHANGED <<err, last, renderVars, textVars, result, panicked, category, retriable, userError, fromStatus>>

\* FromHTTPStatus(status) of the status ToHTTPStatus gave
DoFromHTTPStatus ==
    /\ pc = "tohttp"
    /\ fromStatus' = FromHTTPStatus(status)
    /\ pc' = "fromhttp"
    /\ UNCHANGED <<err, last, renderVars, textVars, result, panicked, code, category, retriable, userError, status>>

\* the statuses handed to FromHTTPStatus
Statuses == (0 - NegCodes)..MaxCode

\* FromHTTPStatus(s) of a status of any value
DoFromHTTPStatusOf ==
    \E s \in Statuses :
        /\ pc = "build"
        /\ err = NoErr
        /\ status' = s
        /\ fromStatus' = FromHTTPStatus(s)
        /\ pc' = "fromhttpof"
        /\ UNCHANGED <<err, last, renderVars, textVars, result, panicked, code,
                       category, retriable, userError>>

NextClassifier ==
    \/ DoCategory
    \/ DoIsRetriable
    \/ DoIsUserError
    \/ DoToHTTPStatus
    \/ DoFromHTTPStatus
    \/ DoFromHTTPStatusOf
    \/ Reset

SpecClassifier == Init /\ [][NextClassifier]_vars

-----------------------------------------------------------------------------
(* Text calls *)

\* the characters of the texts handed to UnmarshalText
TextChars == {" ", "\n", "0", "5", "8", "a", "-", "+"}

\* the texts handed to UnmarshalText
Texts == UNION {[1..n -> TextChars] : n \in 0..MaxTextLen}

\* the whitespace put before and after a marshaled code
Pads == UNION {[1..n -> Spaces] : n \in 0..MaxPad}

\* the codes the receiver of UnmarshalText holds before the call
PriorCodes == {ExitCodeSuccess, ExitCodeValidation}

\* input := a text of any content; code is what the receiver holds
DoInputText ==
    /\ pc = "build"
    /\ err = NoErr
    /\ \E t \in Texts, c \in PriorCodes :
          /\ input' = t
          /\ code' = c
          /\ parsed' = c
    /\ pc' = "text"
    /\ UNCHANGED <<err, last, renderVars, failed, result, panicked, category,
                   retriable, userError, status, fromStatus>>

\* the codes handed to MarshalText
TextCodes == (0 - NegCodes)..MaxTextCode

\* input := c.MarshalText()
DoMarshalText ==
    /\ pc = "build"
    /\ err = NoErr
    /\ \E c \in TextCodes :
          /\ code' = c
          /\ input' = MarshalText(c)
    /\ pc' = "marshaltext"
    /\ UNCHANGED <<err, last, renderVars, parsed, failed, result, panicked,
                   category, retriable, userError, status, fromStatus>>

\* whitespace around the marshaled text, once
DoSurround ==
    /\ pc = "marshaltext"
    /\ input = MarshalText(code)
    /\ \E l \in Pads, r \in Pads :
          /\ l \o r # <<>>
          /\ input' = l \o input \o r
    /\ UNCHANGED <<err, last, renderVars, parsed, failed, pc, result, panicked,
                   classifierVars>>

\* parsed.UnmarshalText(input)
DoUnmarshalText ==
    /\ pc \in {"text", "marshaltext"}
    /\ parsed' = UnmarshalText(input, parsed).code
    /\ failed' = UnmarshalText(input, parsed).failed
    /\ pc' = IF pc = "marshaltext" THEN "roundtrip" ELSE "unmarshaltext"
    /\ UNCHANGED <<err, last, renderVars, input, result, panicked, classifierVars>>

NextText ==
    \/ DoInputText
    \/ DoMarshalText
    \/ DoSurround
    \/ DoUnmarshalText
    \/ Reset

SpecText == Init /\ [][NextText]_vars

-----------------------------------------------------------------------------
(* Properties of the classifier *)

\* C6: Category follows the numeric range of the code alone: success for 0,
\* general for 1..63, user_error for 64..79, cli_extended for 80..99 and
\* system_signal for every code from 128 up, named or not.
C6_CategoryByRange ==
    pc = "category" =>
        /\ code = 0 => category = "success"
        /\ (code >= 1 /\ code <= 63) => category = "general"
        /\ (code >= 64 /\ code <= 79) => category = "user_error"
        /\ (code >= 80 /\ code <= 99) => category = "cli_extended"
        /\ code >= 128 => category = "system_signal"

\* C6 witness: the unnamed code 999 was classified as a system signal
C6_Witness == pc = "category" /\ code = 999 /\ category = "system_signal"

\* C7 as stated: Category is unknown exactly for the negative codes
C7_UnknownOnlyNegative ==
    pc = "category" => (category = "unknown" <=> code < 0)

\* C7 amended: Category is unknown exactly for the negative codes and for the
\* codes 100..127, which lie between the cli_extended and the signal range
C7_UnknownNegativeOrGap ==
    pc = "category" =>
        (category = "unknown" <=> (code < 0 \/ (code >= 100 /\ code <= 127)))

\* C7 witness: a code of the gap was classified, and came out unknown
C7_Witness == pc = "category" /\ code = 100 /\ category = "unknown"

\* C8: IsRetriable is true exactly for 69, 74, 75 and 86, so false for 0
C8_RetriableSet ==
    pc = "retriable" => (retriable <=> code \in {69, 74, 75, 86})

\* C8 witness: RateLimit(86) was found retriable
C8_Witness == pc = "retriable" /\ code = 86 /\ retriable

\* C9: IsUserError is true exactly for 2, 64..68, 77, 78, 83 and 85, so false
\* for Success and the system and temporary-failure codes
C9_UserErrorSet ==
    pc = "usererror" =>
        (userError <=> code \in {2, 64, 65, 66, 67, 68, 77, 78, 83, 85})

\* C9 witness: NotFound(83) was found to be a user error
C9_Witness == pc = "usererror" /\ code = 83 /\ userError

\* C10: FromHTTPStatus of the status ToHTTPStatus gives for a code is never
\* ErrorInternal(1), whatever the code
C10_RoundTripNotInternal ==
    pc = "fromhttp" => fromStatus # 1

\* C10 witness: an unnamed code went to 500 and came back as Software(70)
C10_Witness ==
    pc = "fromhttp" /\ code = 999 /\ status = 500 /\ fromStatus = 70

-----------------------------------------------------------------------------
(* Properties of the resolver.  They read the chain of err directly. *)

\* the values of the chain of the resolved error, in visiting order
chain == Chain(err)

\* position i of the chain holds a value of type *ExitError, nil or not
IsExitErrorAt(i) == chain[i].kind \in {"exit", "nilexit"}

\* position i of the chain holds the sentinel id
IsSentinelAt(i, id) == chain[i].kind = "sentinel" /\ chain[i].id = id

\* the chain holds the sentinel id
HasSentinel(id) == \E i \in 1..Len(chain) : IsSentinelAt(i, id)

\* the chain holds a value of type *ExitError
HasExitError == \E i \in 1..Len(chain) : IsExitErrorAt(i)

\* position i holds the first net.Error of the chain
IsFirstNetErrorAt(i) ==
    /\ IsNetError(chain[i])
    /\ \A j \in 1..(i - 1) : ~IsNetError(chain[j])

\* the chain holds one of the predefined sentinel causes
HasPredefined ==
    \E k \in 1..Len(PredefinedErrors) : HasSentinel(PredefinedErrors[k])

\* none of the rules above the net rule matches err
NoRuleAboveNet ==
    /\ err # NoErr
    /\ ~HasExitError
    /\ ~HasSentinel("context.Canceled")
    /\ ~HasSentinel("context.DeadlineExceeded")
    /\ ~UnderlyingErrorIs(err, "os.ErrNotExist")
    /\ ~UnderlyingErrorIs(err, "os.ErrPermission")

\* none of the rules above the predefined sentinels matches err
NoRuleAbovePredefined ==
    /\ NoRuleAboveNet
    /\ \A i \in 1..Len(chain) : ~IsNetError(chain[i])

PriorityCode ==
    IF \E i \in 1..Len(chain) : chain[i].kind = "exit"
    THEN (CHOOSE n \in {chain[i] : i \in 1..Len(chain)} :
             \E i \in 1..Len(chain) :
                 /\ chain[i] = n
                 /\ n.kind = "exit"
                 /\ \A j \in 1..(i - 1) : chain[j].kind # "exit").code
    ELSE IF HasSentinel("context.Canceled") THEN 130
    ELSE IF HasSentinel("context.DeadlineExceeded") THEN 75
    ELSE IF UnderlyingErrorIs(err, "os.ErrNotExist") THEN 66
    ELSE IF UnderlyingErrorIs(err, "os.ErrPermission") THEN 77
    ELSE IF \E i \in 1..Len(chain) : IsNetError(chain[i])
    THEN (IF \E i \in 1..Len(chain) :
                 IsFirstNetErrorAt(i) /\ (chain[i].timeout \/ chain[i].temporary)
          THEN 75 ELSE 69)
    ELSE IF HasPredefined
    THEN SentinelCode(PredefinedErrors[
             CHOOSE k \in 1..Len(PredefinedErrors) :
                 /\ HasSentinel(PredefinedErrors[k])
                 /\ \A l \in 1..(k - 1) : ~HasSentinel(PredefinedErrors[l])])
    ELSE 1

\* the rules err matches, numbered in the stated order: 1 a value of type
\* *ExitError in the chain, 2 the canceled sentinel, 3 the deadline sentinel,
\* 4 the OS not-exist condition, 5 the OS permission condition, 6 a net.Error
\* in the chain, 7 a predefined sentinel cause
MatchedRules ==
    {r \in 1..7 :
        \/ r = 1 /\ HasExitError
        \/ r = 2 /\ HasSentinel("context.Canceled")
        \/ r = 3 /\ HasSentinel("context.DeadlineExceeded")
        \/ r = 4 /\ UnderlyingErrorIs(err, "os.ErrNotExist")
        \/ r = 5 /\ UnderlyingErrorIs(err, "os.ErrPermission")
        \/ r = 6 /\ \E i \in 1..Len(chain) : IsNetError(chain[i])
        \/ r = 7 /\ HasPredefined}

\* C2: every call on an error that matches more than one rule returns the
\* code of the first rule, in the stated order, that the error matches
C2_StrictPriority ==
    (pc = "resolved" /\ Cardinality(MatchedRules) > 1) =>
        (~panicked /\ result = PriorityCode)

\* C2 on the calls that return: there the priority order is kept
C2_StrictPriorityWhenReturning ==
    (pc = "resolved" /\ Cardinality(MatchedRules) > 1 /\ ~panicked) =>
        result = PriorityCode

\* C3: every call returns a code: Success(0) for the absent error and
\* ErrorInternal(1) for an error that matches no rule
C3_TotalNeverPanics ==
    pc = "resolved" =>
        /\ ~panicked
        /\ err = NoErr => result = 0
        /\ (NoRuleAbovePredefined /\ ~HasPredefined) => result = 1

\* C4: for an error with a net.Error in its chain that no rule above the net
\* rule matches, the code is TempFail(75) when the net.Error reports a
\* timeout or a temporary condition, and Unavailable(69) exactly when it
\* reports neither
C4_NetErrorCode ==
    (pc = "resolved" /\ NoRuleAboveNet) =>
        \A i \in 1..Len(chain) :
            IsFirstNetErrorAt(i) =>
                /\ ~panicked
                /\ (chain[i].timeout \/ chain[i].temporary) => result = 75
                /\ result = 69 <=> (~chain[i].timeout /\ ~chain[i].temporary)

\* C4 witness: a net.Error that is temporary and no timeout resolved to 75
C4_Witness ==
    /\ pc = "resolved"
    /\ err.kind = "net"
    /\ ~err.timeout
    /\ err.temporary
    /\ result = 75

\* C5 as stated: the code bound to every predefined sentinel of the chain is
\* the code returned
C5_AnySentinelCode ==
    (pc = "resolved" /\ NoRuleAbovePredefined) =>
        \A k \in 1..Len(PredefinedErrors) :
            HasSentinel(PredefinedErrors[k]) =>
                (~panicked /\ result = SentinelCode(PredefinedErrors[k]))

\* the code the claim binds to each predefined sentinel
ClaimedCode(id) ==
    CASE id = "ErrInternal" -> 1
      [] id = "ErrInvalid" -> 2
      [] id = "ErrUsage" -> 2
      [] id = "ErrDataFormat" -> 65
      [] id = "ErrNotFound" -> 83
      [] id = "ErrNoPermission" -> 77
      [] id = "ErrConfig" -> 78
      [] id = "ErrAuth" -> 81
      [] id = "ErrForbidden" -> 82
      [] id = "ErrValidation" -> 85
      [] id = "ErrIO" -> 74
      [] id = "ErrUnavailable" -> 69
      [] id = "ErrTempFail" -> 75

\* C5 amended: for an error that no higher rule matches, the code returned
\* is the one bound to the first sentinel, in the order ErrInternal,
\* ErrInvalid, ErrUsage, ErrDataFormat, ErrNotFound, ErrNoPermission,
\* ErrConfig, ErrAuth, ErrForbidden, ErrValidation, ErrIO, ErrUnavailable,
\* ErrTempFail, that its chain holds at any depth (so the code bound to s
\* when s is the only one); a value that has the text of a sentinel and is
\* not the sentinel does not count
C5_FirstListedSentinelCode ==
    (pc = "resolved" /\ NoRuleAbovePredefined) =>
        /\ ~panicked
        /\ \A k \in 1..Len(PredefinedErrors) :
              (/\ HasSentinel(PredefinedErrors[k])
               /\ \A l \in 1..(k - 1) : ~HasSentinel(PredefinedErrors[l]))
              => result = ClaimedCode(PredefinedErrors[k])
        /\ ~HasPredefined => result = 1

\* C5 witness: ErrNotFound under two layers of fmt.Errorf resolved to 83
C5_Witness ==
    /\ pc = "resolved"
    /\ result = 83
    /\ err.kind = "wrapf"
    /\ err.kids[1].kind = "wrapf"
    /\ err.kids[1].kids[1] = Sentinel("ErrNotFound")

-----------------------------------------------------------------------------
(* Properties of FromHTTPStatus *)

\* the exit code the listed statuses map to, and 0 - 1 for an unlisted one
ListedStatusCode(s) ==
    IF s \in {200, 201, 202, 204} THEN ExitCodeSuccess
    ELSE IF s = 400 THEN ExitCodeDataError
    ELSE IF s = 401 THEN ExitCodeAuthFailed
    ELSE IF s \in {403, 423} THEN ExitCodeForbidden
    ELSE IF s = 404 THEN ExitCodeNotFound
    ELSE IF s = 409 THEN ExitCodeConflict
    ELSE IF s \in {412, 422} THEN ExitCodeValidation
    ELSE IF s = 429 THEN ExitCodeRateLimit
    ELSE IF s = 500 THEN ExitCodeSoftware
    ELSE IF s \in {501, 502, 503, 504} THEN ExitCodeUnavailable
    ELSE 0 - 1

\* C11 as stated: FromHTTPStatus maps every integer status by the table:
\* the listed statuses to their codes, any other 2xx to Success, any other
\* 4xx to DataError, any other 5xx to Unavailable, and every status that is
\* not 2xx, 4xx or 5xx (below 200, 300..399, 600 and above) to
\* ErrorInternal.
C11_FromHTTPStatusTable ==
    pc = "fromhttpof" =>
        fromStatus =
            IF ListedStatusCode(status) # 0 - 1 THEN ListedStatusCode(status)
            ELSE IF status >= 200 /\ status <= 299 THEN ExitCodeSuccess
            ELSE IF status >= 400 /\ status <= 499 THEN ExitCodeDataError
            ELSE IF status >= 500 /\ status <= 599 THEN ExitCodeUnavailable
            ELSE ExitCodeErrorInternal

\* C11 amended: FromHTTPStatus maps the listed statuses to their codes, any
\* other 2xx to Success, any other 4xx to DataError, every other status from
\* 500 up (600 and above included) to Unavailable, and only the statuses
\* below 200 and 300..399 to ErrorInternal.
C11_FromHTTPStatusTableNoUpperEnd ==
    pc = "fromhttpof" =>
        fromStatus =
            IF ListedStatusCode(status) # 0 - 1 THEN ListedStatusCode(status)
            ELSE IF status >= 200 /\ status <= 299 THEN ExitCodeSuccess
            ELSE IF status >= 400 /\ status <= 499 THEN ExitCodeDataError
            ELSE IF status >= 500 THEN ExitCodeUnavailable
            ELSE ExitCodeErrorInternal

\* C11 witness: status 600 was mapped, to Unavailable
C11_Witness ==
    pc = "fromhttpof" /\ status = 600 /\ fromStatus = ExitCodeUnavailable

-----------------------------------------------------------------------------
(* Properties of the ExitError wrapper *)

\* C12: Error() of an ExitError is its Message when that is non-empty;
\* otherwise what Error() of its Cause gives when a cause is present (the
\* same text, and a panic exactly when rendering the cause panics);
\* otherwise the registry description of its Code.  Message comes before
\* the cause text, the cause text before the description.
C12_ErrorPrecedence ==
    pc = "rendered" =>
        IF err.msg # "" THEN ~panicked /\ text = err.msg
        ELSE IF err.kids # <<>> THEN
            /\ panicked = ErrorPanics(err.kids[1])
            /\ ~panicked => text = ErrorText(err.kids[1])
        ELSE ~panicked /\ text = String(err.code)

\* C12 witness: an ExitError without a message was rendered as its cause
C12_Witness ==
    /\ pc = "rendered"
    /\ err.msg = ""
    /\ err.code = ExitCodeValidation
    /\ err.kids = <<Sentinel("ErrValidation")>>
    /\ text = "validation error"

\* C13 as stated: the record of ValidationError("invalid input") has code
\* 85, category "cli_extended", message "invalid input" and no cause key.
C13_ValidationRecordWithoutCause ==
    (/\ pc = "marshaled"
     /\ last.op = "ValidationError"
     /\ err.msg = "invalid input")
    => /\ ~panicked
       /\ record.code = 85
       /\ record.category = "cli_extended"
       /\ record.message = "invalid input"
       /\ "cause" \notin record.keys

\* the codes, the category and the message of that record are as C13 says
C13_ValidationRecordFields ==
    (/\ pc = "marshaled"
     /\ last.op = "ValidationError"
     /\ err.msg = "invalid input")
    => /\ ~panicked
       /\ record.code = 85
       /\ record.category = "cli_extended"
       /\ record.message = "invalid input"

\* C16 as stated: WithCode of an absent err returns nothing; WithCode of
\* every present err and every code returns an ExitError with that Code,
\* err's text as Message and err as Cause, and ResolveExitCode of the result
\* is the code.
C16_WithCodeRebinds ==
    last.op = "WithCode" =>
        IF last.arg = NoErr THEN pc # "crashed" /\ err.kind = "nilexit"
        ELSE /\ pc # "crashed"
             /\ err.kind = "exit"
             /\ err.code = last.code
             /\ err.msg = ErrorText(last.arg)
             /\ err.kids = <<last.arg>>
             /\ pc = "resolved" => (~panicked /\ result = last.code)

\* the same, for every present err whose Error() returns
C16_WithCodeRebindsWhenRendered ==
    (last.op = "WithCode" /\ last.arg # NoErr /\ ~ErrorPanics(last.arg)) =>
        /\ pc # "crashed"
        /\ err.kind = "exit"
        /\ err.code = last.code
        /\ err.msg = ErrorText(last.arg)
        /\ err.kids = <<last.arg>>
        /\ pc = "resolved" => (~panicked /\ result = last.code)

\* the code each factory binds, as C17 lists them
FixedCode(f) ==
    CASE f = "UsageError" -> 2
      [] f = "ValidationError" -> 85
      [] f = "ConfigError" -> 78
      [] f = "NotFoundError" -> 83
      [] f = "PermissionError" -> 77
      [] f = "AuthError" -> 81
      [] f = "TempFailError" -> 75

\* the sentinel cause each factory binds, as C17 lists them
FixedCause(f) ==
    CASE f = "UsageError" -> "ErrUsage"
      [] f = "ValidationError" -> "ErrValidation"
      [] f = "ConfigError" -> "ErrConfig"
      [] f = "NotFoundError" -> "ErrNotFound"
      [] f = "PermissionError" -> "ErrNoPermission"
      [] f = "AuthError" -> "ErrAuth"
      [] f = "TempFailError" -> "ErrTempFail"

\* C17: every factory returns, for every argument, an ExitError bound to its
\* fixed code with the matching sentinel as cause; ResolveExitCode of the
\* result is that code, which is also what ResolveExitCode gives for the
\* bare sentinel; of the seven codes only TempFailError's is retriable.
C17_FactoriesBindCodeAndCause ==
    last.op \in Factories =>
        /\ pc # "crashed"
        /\ err.kind = "exit"
        /\ err.code = FixedCode(last.op)
        /\ Len(err.kids) = 1
        /\ err.kids[1].kind = "sentinel"
        /\ err.kids[1].id = FixedCause(last.op)
        /\ ResolveExitCode(err.kids[1]) = Returns(FixedCode(last.op))
        /\ pc = "resolved" => (~panicked /\ result = FixedCode(last.op))
        /\ IsRetriable(err.code) <=> last.op = "TempFailError"

\* C17 witness: the result of TempFailError was resolved to 75
C17_Witness ==
    /\ pc = "resolved"
    /\ last.op = "TempFailError"
    /\ err.msg = "invalid input"
    /\ result = 75

\* C18: for every non-nil error whose chain holds no ExitError,
\* ResolveExitCode returns a code other than 0; it returns Success(0) for
\* a non-nil error only when the chain holds an ExitError bound to 0.
C18_FailureNeverSuccess ==
    (pc = "resolved" /\ err # NoErr) =>
        /\ ~HasExitError => (~panicked /\ result # 0)
        /\ (~panicked /\ result = 0) =>
              \E i \in 1..Len(chain) : chain[i].kind = "exit" /\ chain[i].code = 0

\* C18 witness: an error nothing knows, wrapped by fmt.Errorf, was resolved
\* to ErrorInternal(1)
C18_Witness ==
    /\ pc = "resolved"
    /\ err.kind = "wrapf"
    /\ err.kids[1].kind = "new"
    /\ ~panicked
    /\ result = 1

\* the chain holds two ExitErrors bound to different codes
HasSeveralExitErrors ==
    \E i \in 1..Len(chain), j \in 1..Len(chain) :
        /\ chain[i].kind = "exit"
        /\ chain[j].kind = "exit"
        /\ chain[i].code # chain[j].code

\* position i holds the outermost ExitError: no other comes before it
IsOutermostExitErrorAt(i) ==
    /\ chain[i].kind = "exit"
    /\ \A j \in 1..(i - 1) : chain[j].kind # "exit"

\* C19 as stated: when the chain holds several ExitErrors with different
\* codes, ResolveExitCode returns the code of the outermost one, never the
\* code of an inner one.
C19_OutermostOfSeveral ==
    (pc = "resolved" /\ HasSeveralExitErrors) =>
        \A i \in 1..Len(chain) :
            IsOutermostExitErrorAt(i) => (~panicked /\ result = chain[i].code)

\* the same, when no nil pointer to ExitError comes before the outermost
C19_OutermostOfSeveralWhenReturning ==
    (pc = "resolved" /\ HasSeveralExitErrors) =>
        \A i \in 1..Len(chain) :
            (/\ IsOutermostExitErrorAt(i)
             /\ \A j \in 1..(i - 1) : chain[j].kind # "nilexit")
            => (~panicked /\ result = chain[i].code)

-----------------------------------------------------------------------------
(* Properties of the text form *)

\* the positions of a text that hold no whitespace
Inked(t) == {i \in 1..Len(t) : t[i] \notin {" ", "\t", "\n"}}

\* a text without the whitespace around it
Core(t) ==
    IF Inked(t) = {} THEN <<>>
    ELSE SubSeq(t, CHOOSE i \in Inked(t) : \A j \in Inked(t) : i <= j,
                   CHOOSE i \in Inked(t) : \A j \in Inked(t) : i >= j)

\* a decimal integer: one digit or more, after at most one sign
IsDecimalInteger(t) ==
    LET body == IF t # <<>> /\ t[1] \in {"+", "-"} THEN SubSeq(t, 2, Len(t)) ELSE t
    IN  /\ body # <<>>
        /\ \A i \in 1..Len(body) :
              body[i] \in {"0", "1", "2", "3", "4", "5", "6", "7", "8", "9"}

\* C14: for every code c >= 0, UnmarshalText of MarshalText(c) succeeds and
\* yields c, also when the text has whitespace around it.
C14_TextRoundTrip ==
    (pc = "roundtrip" /\ code >= 0) => (~failed /\ parsed = code)

\* C14 witness: " 85" followed by a newline was parsed back to 85
C14_Witness ==
    /\ pc = "roundtrip"
    /\ code = 85
    /\ input = <<" ", "8", "5", "\n">>
    /\ parsed = 85

\* C15: UnmarshalText trims the whitespace around the text first; for every
\* empty or whitespace-only text it succeeds and sets the code to
\* Success(0); for every text that, trimmed, is not a decimal integer it
\* returns an error and leaves the code as it was.
C15_UnmarshalTextBlankAndInvalid ==
    pc = "unmarshaltext" =>
        /\ Core(input) = <<>> => (~failed /\ parsed = ExitCodeSuccess)
        /\ (Core(input) # <<>> /\ ~IsDecimalInteger(Core(input)))
              => (failed /\ parsed = code)

\* C15 witness: a blank text was parsed, by a receiver that held 85, to 0
C15_Witness ==
    /\ pc = "unmarshaltext"
    /\ input = <<" ", "\n", " ">>
    /\ code = ExitCodeValidation
    /\ ~failed
    /\ parsed = ExitCodeSuccess

\* C15, the other case: "8a" between spaces was refused
C15_WitnessInvalid ==
    /\ pc = "unmarshaltext"
    /\ input = <<" ", "8", "a", " ">>
    /\ code = ExitCodeValidation
    /\ failed
    /\ parsed = ExitCodeValidation

=============================================================================
